---- MODULE Spec2Model ----
(***************************************************************************)
(* Medical Imaging Analysis Platform (React single-page application).      *)
(*                                                                         *)
(* Four specifications share this module:                                  *)
(*   SpecLoop  the pixel loop of applyXRayEffect, run statement by         *)
(*             statement over a Uint8ClampedArray drawn at Init;           *)
(*   Spec      the XRayProcessor component: upload, Process click, image   *)
(*             load, the analysis timer and reset, as event-loop tasks;    *)
(*   SpecAdv   the AdvancedXRayProcessor component, mounted throughout;    *)
(*   SpecApp   the App shell: navigation, and the page it mounts           *)
(*             (XRayProcessor, AdvancedXRayProcessor or ModelComparison).  *)
(* The two processors declare hooks of the same names; the variables       *)
(* selectedImage, processedImage, isProcessing and analysisResult hold     *)
(* the hooks of whichever processor is mounted.                            *)
(*                                                                         *)
(* JavaScript numbers that may end in .5 are carried in HALVES (twice      *)
(* their value), so that all arithmetic stays in the integers.             *)
(***************************************************************************)
EXTENDS Integers, Sequences, FiniteSets

VARIABLES
    \* ---- pixel loop (SpecLoop) ----
    input,          \* the buffer handed to the first run of the loop
    data,           \* imageData.data, modified in place
    i,              \* the loop variable
    lpc,            \* position in the loop: "test", "invert", "contrast", "done", "idle"
    pass,           \* how many times the loop has been started on this buffer
    out1,           \* the buffer as the first run left it
    \* ---- component state (Spec) ----
    selectedImage,  \* useState(null): the uploaded data URL
    processedImage, \* useState(null): the PNG data URL of the canvas
    isProcessing,   \* useState(false)
    analysisResult, \* useState(null)
    readers,        \* FileReader reads in flight (files)
    loads,          \* <img> loads in flight, one per pending applyXRayEffect (image sources)
    timers,         \* pending 2000 ms analysis timers
    uncaught,       \* the last exception that left an event callback uncaught
    lastRun,        \* what the last img.onload saw and produced (observation only)
    uploads,        \* number of files chosen so far
    clicks,         \* number of Process / Analyze / Compare Models clicks so far
    \* ---- AdvancedXRayProcessor (SpecAdv) ----
    heatmapImage,       \* useState(null)
    modelComparison,    \* useState(null)
    optimizationReport, \* useState(null)
    activeTab,          \* useState('analysis')
    imageQuality,       \* useState(null)
    calls,              \* handler runs waiting at an await: [op, src]
    fallbacks,          \* pending 2000 ms fallback timers of processImage (captured image)
    analyzing,          \* processImage was invoked and no reset or upload came since (observation only;
                        \* kept by both processors)
    reports,            \* number of Optimization Report clicks so far
    \* ---- App shell and ModelComparison (SpecApp) ----
    currentPage,        \* useState('home')
    selectedMetric,     \* useState('accuracy')
    sortBy              \* useState('accuracy')

loopVars == <<input, data, i, lpc, pass, out1>>
compVars == <<selectedImage, processedImage, isProcessing, analysisResult,
              readers, loads, timers, uncaught, lastRun, uploads, clicks>>
advVars == <<heatmapImage, modelComparison, optimizationReport, activeTab,
             imageQuality, calls, fallbacks, analyzing, reports>>
cmpVars == <<selectedMetric, sortBy>>
\* what the XRayProcessor and the pixel loop never touch
extVars == <<heatmapImage, modelComparison, optimizationReport, activeTab,
             imageQuality, calls, fallbacks, reports,
             currentPage, selectedMetric, sortBy>>
vars == <<input, data, i, lpc, pass, out1,
          selectedImage, processedImage, isProcessing, analysisResult,
          readers, loads, timers, uncaught, lastRun, uploads, clicks,
          heatmapImage, modelComparison, optimizationReport, activeTab,
          imageQuality, calls, fallbacks, analyzing, reports,
          currentPage, selectedMetric, sortBy>>

----------------------------------------------------------------------------
\* Bounds of the model.

\* longest buffer the loop is run on (two pixels; also lengths that are no multiple of 4)
MaxLen == 8
\* runs of the loop on one buffer (the output fed back as the next input)
MaxPasses == 2
\* files chosen in the file input
MaxUploads == 2
\* clicks on Process Image
MaxClicks == 2

Byte == 0..255

\* channel values placed beside the swept value v
Probes == {0, 128, 255}

\* alpha values of the generated buffers
Alphas == {0, 77, 255}

----------------------------------------------------------------------------
\* Number conversions of the typed array.

MathMin(a, b) == IF a < b THEN a ELSE b

MathMax(a, b) == IF a > b THEN a ELSE b

\* Math.round-like store: ties go up (not what a Uint8ClampedArray does)
ToUint8ClampTiesUp(h) ==
    LET c == MathMax(0, MathMin(510, h))
    IN  (c + 1) \div 2

\* The store conversion of Uint8ClampedArray (ToUint8Clamp) for a number of
\* h halves: clamp to [0,255], round to nearest, ties to even.
ToUint8Clamp(h) ==
    LET c == MathMax(0, MathMin(510, h))
        f == c \div 2
    IN  IF c % 2 = 0 THEN f
        ELSE IF f % 2 = 0 THEN f ELSE f + 1

----------------------------------------------------------------------------
\* The pixel loop of applyXRayEffect. JavaScript index j is data[j + 1] here.
\* A store at an index past the end of a typed array is ignored (the value
\* stored there is NaN: 255 - undefined).

\* the inversion forgotten
InvertAtMissing(d, j) == d

\* data[j] = 255 - data[j]
InvertAt(d, j) ==
    IF j < Len(d)
    THEN [d EXCEPT ![j + 1] = ToUint8Clamp(2 * (255 - d[j + 1]))]
    ELSE d

\* the contrast stretch without Math.max/Math.min, the result truncated into a
\* plain array instead of the clamped one
ContrastAtUnclamped(d, j) ==
    IF j < Len(d)
    THEN [d EXCEPT ![j + 1] = (3 * (d[j + 1] - 128) + 256) \div 2]
    ELSE d

\* the contrast stretch around 127 instead of 128
ContrastAtOffByOne(d, j) ==
    IF j < Len(d)
    THEN [d EXCEPT ![j + 1] =
            ToUint8Clamp(MathMax(0, MathMin(510, 3 * (d[j + 1] - 127) + 256)))]
    ELSE d

\* data[j] = Math.max(0, Math.min(255, (data[j] - 128) * 1.5 + 128))
\* in halves: (x - 128) * 1.5 + 128 is (3 * (x - 128) + 256) / 2, and 255 is 510
ContrastAt(d, j) ==
    IF j < Len(d)
    THEN [d EXCEPT ![j + 1] =
            ToUint8Clamp(MathMax(0, MathMin(510, 3 * (d[j + 1] - 128) + 256)))]
    ELSE d

\* the inversion applied to all four bytes of the pixel
InvertPixelWithAlpha(d, j) ==
    InvertAt(InvertAt(InvertAt(InvertAt(d, j), j + 1), j + 2), j + 3)

\* lines 43-45: the three inversions of pixel j
InvertPixel(d, j) == InvertAt(InvertAt(InvertAt(d, j), j + 1), j + 2)

\* lines 48-50: the three contrast stores of pixel j
ContrastPixel(d, j) == ContrastAt(ContrastAt(ContrastAt(d, j), j + 1), j + 2)

\* one iteration of the for loop
LoopBody(d, j) == ContrastPixel(InvertPixel(d, j), j)

RECURSIVE PixelLoopFrom(_, _)
\* for (let i = j; i < data.length; i += 4) { ... }
PixelLoopFrom(d, j) ==
    IF j < Len(d) THEN PixelLoopFrom(LoopBody(d, j), j + 4) ELSE d

\* the whole loop, as img.onload runs it
PixelLoop(d) == PixelLoopFrom(d, 0)

----------------------------------------------------------------------------
\* Buffers the loop is run on: every length up to MaxLen, the swept value v
\* in every colour channel position, probes beside it.

BufferOf(n, v, w, a) ==
    [k \in 1..n |->
        LET c == (k - 1) % 4
            p == (k - 1) \div 4
        IN  IF c = 3 THEN (IF p % 2 = 0 THEN a ELSE 255 - a)
            ELSE IF p % 2 = 0
                 THEN (IF c = 0 THEN v ELSE IF c = 1 THEN w ELSE 255 - v)
                 ELSE (IF c = 0 THEN w ELSE v)]

Buffers ==
    {BufferOf(n, v, w, a) : n \in 0..MaxLen, v \in Byte, w \in Probes, a \in Alphas}

Null == [kind |-> "null"]

LoopIdle ==
    /\ input = <<>>
    /\ data = <<>>
    /\ i = 0
    /\ lpc = "idle"
    /\ pass = 0
    /\ out1 = <<>>

CompIdle ==
    /\ selectedImage = Null
    /\ processedImage = Null
    /\ isProcessing = FALSE
    /\ analysisResult = Null
    /\ readers = <<>>
    /\ loads = <<>>
    /\ timers = 0
    /\ uncaught = "none"
    /\ lastRun = Null
    /\ uploads = 0
    /\ clicks = 0

AdvIdle ==
    /\ heatmapImage = Null
    /\ modelComparison = Null
    /\ optimizationReport = Null
    /\ activeTab = "analysis"
    /\ imageQuality = Null
    /\ calls = <<>>
    /\ fallbacks = <<>>
    /\ analyzing = FALSE
    /\ reports = 0

CmpIdle ==
    /\ selectedMetric = "accuracy"
    /\ sortBy = "accuracy"

\* ---- SpecLoop ----

InitLoop ==
    /\ input \in Buffers
    /\ data = input
    /\ i = 0
    /\ lpc = "test"
    /\ pass = 1
    /\ out1 = <<>>
    /\ CompIdle
    /\ AdvIdle
    /\ CmpIdle
    /\ currentPage = "xray"

\* i < data.length holds: enter the body
LoopEnter ==
    /\ lpc = "test"
    /\ i < Len(data)
    /\ lpc' = "invert"
    /\ UNCHANGED <<input, data, i, pass, out1>>
    /\ UNCHANGED compVars
    /\ UNCHANGED extVars
    /\ UNCHANGED analyzing

\* i < data.length fails: the loop is over
LoopExit ==
    /\ lpc = "test"
    /\ ~(i < Len(data))
    /\ lpc' = "done"
    /\ out1' = IF pass = 1 THEN data ELSE out1
    /\ UNCHANGED <<input, data, i, pass>>
    /\ UNCHANGED compVars
    /\ UNCHANGED extVars
    /\ UNCHANGED analyzing

\* lines 43-45
LoopInvert ==
    /\ lpc = "invert"
    /\ data' = InvertPixel(data, i)
    /\ lpc' = "contrast"
    /\ UNCHANGED <<input, i, pass, out1>>
    /\ UNCHANGED compVars
    /\ UNCHANGED extVars
    /\ UNCHANGED analyzing

\* lines 48-50, then i += 4
LoopContrast ==
    /\ lpc = "contrast"
    /\ data' = ContrastPixel(data, i)
    /\ i' = i + 4
    /\ lpc' = "test"
    /\ UNCHANGED <<input, pass, out1>>
    /\ UNCHANGED compVars
    /\ UNCHANGED extVars
    /\ UNCHANGED analyzing

\* the loop started again on its own output (the processed image processed again)
LoopAgain ==
    /\ lpc = "done"
    /\ pass < MaxPasses
    /\ pass' = pass + 1
    /\ i' = 0
    /\ lpc' = "test"
    /\ UNCHANGED <<input, data, out1>>
    /\ UNCHANGED compVars
    /\ UNCHANGED extVars
    /\ UNCHANGED analyzing

NextLoop ==
    \/ LoopEnter
    \/ LoopExit
    \/ LoopInvert
    \/ LoopContrast
    \/ LoopAgain

SpecLoop == InitLoop /\ [][NextLoop]_vars

----------------------------------------------------------------------------
\* The XRayProcessor component (Spec). Every action is one event-loop task
\* together with the microtasks it queues: the continuation of
\* `await applyXRayEffect(...)` runs right after img.onload resolves the
\* promise, before any other task.

\* shapes (width, height) of the files the user picks; a width of 0 is an
\* image that loads with no pixels
Dims == {<<0, 1>>, <<1, 1>>, <<2, 1>>, <<1, 2>>}

\* a data URL that decodes to a width x height RGBA bitmap
ImageFile(w, h, v, a) ==
    [kind |-> "image", width |-> w, height |-> h,
     data |-> BufferOf(4 * w * h, v, 255 - v, a)]

\* a data URL no image decoder accepts (accept="image/*" is only a hint)
BadFile == [kind |-> "bad"]

Files ==
    {BadFile} \cup
    {ImageFile(d[1], d[2], v, a) : d \in Dims, v \in {0, 128, 200}, a \in {0, 255}}

\* Math.floor(Math.random() * 40) + 60 lies in 60..99; its two ends are kept
ConfidenceSamples == {60, 99}

\* the mock results the timer callback can build
MockResults ==
    {[kind |-> "result", hasPneumonia |-> b, confidence |-> c] :
        b \in BOOLEAN, c \in ConfidenceSamples}

\* s without its k-th element
RemoveAt(s, k) == [j \in 1..(Len(s) - 1) |-> IF j < k THEN s[j] ELSE s[j + 1]]

\* The canvas keeps premultiplied colour: a fully transparent pixel reads back
\* as (0,0,0,0), an opaque one exactly (the files above have no other alpha).
Premultiplied(d) ==
    [k \in 1..Len(d) |->
        IF (k - 1) % 4 # 3 /\ d[4 * ((k - 1) \div 4) + 4] = 0 THEN 0 ELSE d[k]]

\* the canvas sized from the wrong side of the image
CanvasWidthSwapped(img) == img.height

\* canvas.width = img.width
CanvasWidth(img) == img.width

\* canvas.height = img.height
CanvasHeight(img) == img.height

\* ctx.drawImage(img, 0, 0) on a cw x ch canvas, then
\* ctx.getImageData(0, 0, cw, ch).data: 4 bytes per canvas pixel, transparent
\* black where the image does not cover the canvas
GetImageData(img, cw, ch) ==
    LET src == Premultiplied(img.data)
    IN  [k \in 1..(4 * cw * ch) |->
            LET p == (k - 1) \div 4
                c == (k - 1) % 4
                x == p % cw
                y == p \div cw
            IN  IF x < img.width /\ y < img.height
                THEN src[4 * (y * img.width + x) + c + 1]
                ELSE 0]

\* getImageData throws IndexSizeError when the rectangle has no pixels
GetImageDataThrows(cw, ch) == cw = 0 \/ ch = 0

\* ctx.putImageData(imageData, 0, 0); canvas.toDataURL('image/png'):
\* the PNG of the canvas bitmap
ToDataURL(cw, ch, d) ==
    [kind |-> "image", width |-> cw, height |-> ch, data |-> Premultiplied(d)]

\* what img.onload resolves the promise with
XRayImage(img) ==
    LET cw == CanvasWidth(img)
        ch == CanvasHeight(img)
    IN  ToDataURL(cw, ch, PixelLoop(GetImageData(img, cw, ch)))

\* the XRayProcessor page is the one mounted
Init ==
    /\ LoopIdle
    /\ CompIdle
    /\ AdvIdle
    /\ CmpIdle
    /\ currentPage = "xray"

\* handleImageUpload: a file is chosen and reader.readAsDataURL(file) starts
ChooseFile ==
    /\ uploads < MaxUploads
    /\ \E f \in Files : readers' = Append(readers, f)
    /\ uploads' = uploads + 1
    /\ UNCHANGED <<selectedImage, processedImage, isProcessing, analysisResult,
                   loads, timers, uncaught, lastRun, clicks>>
    /\ UNCHANGED loopVars
    /\ UNCHANGED extVars
    /\ UNCHANGED analyzing

\* reader.onload of one of the reads in flight
ReaderOnload ==
    /\ \E k \in 1..Len(readers) :
        /\ selectedImage' = readers[k]
        /\ readers' = RemoveAt(readers, k)
    /\ processedImage' = Null
    /\ analysisResult' = Null
    /\ UNCHANGED <<isProcessing, loads, timers, uncaught, lastRun, uploads, clicks>>
    /\ UNCHANGED loopVars
    /\ UNCHANGED extVars
    /\ analyzing' = FALSE

\* processImage up to the await: the button is rendered only with an image
\* selected and is disabled while isProcessing
ProcessClick ==
    /\ selectedImage # Null
    /\ ~isProcessing
    /\ clicks < MaxClicks
    /\ isProcessing' = TRUE
    /\ loads' = Append(loads, selectedImage)
    /\ clicks' = clicks + 1
    /\ UNCHANGED <<selectedImage, processedImage, analysisResult, readers,
                   timers, uncaught, lastRun, uploads>>
    /\ UNCHANGED loopVars
    /\ UNCHANGED extVars
    /\ analyzing' = TRUE

\* the transform written over the source: the result also replaces selectedImage
ImgOnloadResolvesInPlace ==
    /\ \E k \in 1..Len(loads) :
        /\ loads[k].kind = "image"
        /\ ~GetImageDataThrows(CanvasWidth(loads[k]), CanvasHeight(loads[k]))
        /\ processedImage' = XRayImage(loads[k])
        /\ selectedImage' = XRayImage(loads[k])
        /\ lastRun' = [kind |-> "run", src |-> loads[k], promise |-> "fulfilled",
                       error |-> "none", out |-> XRayImage(loads[k])]
        /\ loads' = RemoveAt(loads, k)
    /\ timers' = timers + 1
    /\ UNCHANGED <<isProcessing, analysisResult, readers,
                   uncaught, uploads, clicks>>
    /\ UNCHANGED loopVars
    /\ UNCHANGED extVars
    /\ UNCHANGED analyzing

\* img.onload on an image with pixels: the transform, resolve, and the
\* continuation of processImage (setProcessedImage, setTimeout)
ImgOnloadResolves ==
    /\ \E k \in 1..Len(loads) :
        /\ loads[k].kind = "image"
        /\ ~GetImageDataThrows(CanvasWidth(loads[k]), CanvasHeight(loads[k]))
        /\ processedImage' = XRayImage(loads[k])
        /\ lastRun' = [kind |-> "run", src |-> loads[k], promise |-> "fulfilled",
                       error |-> "none", out |-> XRayImage(loads[k])]
        /\ loads' = RemoveAt(loads, k)
    /\ timers' = timers + 1
    /\ UNCHANGED <<selectedImage, isProcessing, analysisResult, readers,
                   uncaught, uploads, clicks>>
    /\ UNCHANGED loopVars
    /\ UNCHANGED extVars
    /\ UNCHANGED analyzing

\* img.onload on an image without pixels: getImageData throws inside the
\* callback, nothing catches it there, resolve is never called
ImgOnloadThrows ==
    /\ \E k \in 1..Len(loads) :
        /\ loads[k].kind = "image"
        /\ GetImageDataThrows(CanvasWidth(loads[k]), CanvasHeight(loads[k]))
        /\ lastRun' = [kind |-> "run", src |-> loads[k], promise |-> "pending",
                       error |-> "IndexSizeError", out |-> Null]
        /\ loads' = RemoveAt(loads, k)
    /\ uncaught' = "IndexSizeError"
    /\ UNCHANGED <<selectedImage, processedImage, isProcessing, analysisResult,
                   readers, timers, uploads, clicks>>
    /\ UNCHANGED loopVars
    /\ UNCHANGED extVars
    /\ UNCHANGED analyzing

\* the image fails to decode: img.onerror has no handler, onload never runs,
\* the promise stays pending
ImgError ==
    /\ \E k \in 1..Len(loads) :
        /\ loads[k].kind = "bad"
        /\ lastRun' = [kind |-> "run", src |-> loads[k], promise |-> "pending",
                       error |-> "none", out |-> Null]
        /\ loads' = RemoveAt(loads, k)
    /\ UNCHANGED <<selectedImage, processedImage, isProcessing, analysisResult,
                   readers, timers, uncaught, uploads, clicks>>
    /\ UNCHANGED loopVars
    /\ UNCHANGED extVars
    /\ UNCHANGED analyzing

\* the setTimeout callback of processImage, 2000 ms after the transform
TimerFires ==
    /\ timers > 0
    /\ \E r \in MockResults : analysisResult' = r
    /\ isProcessing' = FALSE
    /\ timers' = timers - 1
    /\ UNCHANGED <<selectedImage, processedImage, readers, loads, uncaught,
                   lastRun, uploads, clicks>>
    /\ UNCHANGED loopVars
    /\ UNCHANGED extVars
    /\ UNCHANGED analyzing

\* resetProcessor: the Reset button is rendered only with an image selected
ResetClick ==
    /\ selectedImage # Null
    /\ selectedImage' = Null
    /\ processedImage' = Null
    /\ analysisResult' = Null
    /\ UNCHANGED <<isProcessing, readers, loads, timers, uncaught, lastRun,
                   uploads, clicks>>
    /\ UNCHANGED loopVars
    /\ UNCHANGED extVars
    /\ analyzing' = FALSE

Next ==
    \/ ChooseFile
    \/ ReaderOnload
    \/ ProcessClick
    \/ ImgOnloadResolves
    \/ ImgOnloadThrows
    \/ ImgError
    \/ TimerFires
    \/ ResetClick

Spec == Init /\ [][Next]_vars

----------------------------------------------------------------------------
\* The AdvancedXRayProcessor component (SpecAdv). A handler run is split at
\* its awaits: the click runs the synchronous part, then the run waits in
\* `calls` until the backend call settles. selectedModel keeps its initial
\* value 'efficientnet' (the model list comes from the backend).

\* max Optimization Report clicks
MaxReports == 1

\* the data URLs picked in the advanced processor
AdvFiles == {BadFile, ImageFile(1, 1, 128, 255)}

\* data.analysis of a successful /api/analyze response
BackendAnalyses ==
    {[kind |-> "result", prediction |-> p, confidence |-> 97, from |-> "backend"] :
        p \in {"Pneumonia", "Normal"}}

\* data.heatmap of a successful /api/analyze response
BackendHeatmap == [kind |-> "heatmap", from |-> "backend"]

\* mockResult of processImage: prediction and confidence are random
MockAnalyses ==
    {[kind |-> "result", prediction |-> p, confidence |-> c, from |-> "mock"] :
        p \in {"Pneumonia", "Normal"}, c \in ConfidenceSamples}

\* the 1 x 1 PNG data URL of the fallback
MockHeatmap == [kind |-> "heatmap", from |-> "mock"]

\* mockQuality of analyzeImageQuality (quality_score in percent: 60..100)
MockQualities ==
    {[kind |-> "quality", is_valid |-> TRUE, issues |-> <<>>, quality_score |-> q] :
        q \in {60, 100}}

\* data.comparison of a successful /api/compare-models response
BackendComparison == [kind |-> "comparison", from |-> "backend"]

\* mockComparison of compareModels (confidence in tenths, time in hundredths)
MockComparison ==
    [kind |-> "comparison", from |-> "mock",
     vgg16 |-> [prediction |-> "Normal", confidence |-> 785, processing_time |-> 45],
     resnet50 |-> [prediction |-> "Pneumonia", confidence |-> 823, processing_time |-> 38],
     mobilenetv2 |-> [prediction |-> "Normal", confidence |-> 751, processing_time |-> 15],
     efficientnet |-> [prediction |-> "Pneumonia", confidence |-> 897, processing_time |-> 25]]

\* mockReport of generateOptimizationReport (accuracy in percent, sizes in tenths of MB)
MockReport ==
    [model_info |-> [name |-> "efficientnet", size_mb |-> 1000, accuracy |-> 92,
                     inference_time_ms |-> 250],
     target_size_mb |-> 100,
     optimization_comparison |->
        [best_strategy |-> "quantization",
         strategies |->
            [pruning |-> [optimized_metrics |->
                [size_mb |-> 250, inference_time_ms |-> 180, accuracy |-> 91]],
             quantization |-> [optimized_metrics |->
                [size_mb |-> 85, inference_time_ms |-> 150, accuracy |-> 90]]]]]

\* data.report of a successful /api/optimization-report response
BackendReport ==
    [model_info |-> [name |-> "efficientnet", size_mb |-> 1000, accuracy |-> 92,
                     inference_time_ms |-> 250],
     target_size_mb |-> 100,
     optimization_comparison |-> [best_strategy |-> "quantization"],
     summary |-> [achievable_size_mb |-> 85]]

\* the optimization tab reads report.model_info.*, report.target_size_mb,
\* report.optimization_comparison.best_strategy and
\* report.summary.achievable_size_mb: reading a property of undefined throws
OptimizationTabThrows(report) ==
    \/ "model_info" \notin DOMAIN report
    \/ "optimization_comparison" \notin DOMAIN report
    \/ "summary" \notin DOMAIN report

\* the render of the component throws: React unmounts it, its buttons are
\* gone and state updates of its pending callbacks are dropped
Crashed ==
    /\ activeTab = "optimization"
    /\ optimizationReport # Null
    /\ OptimizationTabThrows(optimizationReport)

\* the Analyze and Compare Models buttons: rendered with an image selected,
\* disabled while isProcessing
CanStartRun ==
    /\ ~Crashed
    /\ selectedImage # Null
    /\ ~isProcessing
    /\ clicks < MaxClicks

\* what the advanced processor never touches
advFixed == <<input, data, i, lpc, pass, out1, loads, timers, uncaught, lastRun,
              currentPage, selectedMetric, sortBy>>

InitAdv ==
    /\ LoopIdle
    /\ CompIdle
    /\ AdvIdle
    /\ CmpIdle
    /\ currentPage = "advanced"

\* handleImageUpload: reader.readAsDataURL(file) starts
AdvChooseFile ==
    /\ ~Crashed
    /\ uploads < MaxUploads
    /\ \E f \in AdvFiles : readers' = Append(readers, f)
    /\ uploads' = uploads + 1
    /\ UNCHANGED <<selectedImage, processedImage, isProcessing, analysisResult, clicks>>
    /\ UNCHANGED advVars
    /\ UNCHANGED advFixed

\* reader.onload, with analyzeImageQuality (which has no await) run inside it
AdvReaderOnload ==
    /\ ~Crashed
    /\ \E k \in 1..Len(readers) :
        /\ selectedImage' = readers[k]
        /\ readers' = RemoveAt(readers, k)
    /\ processedImage' = Null
    /\ analysisResult' = Null
    /\ heatmapImage' = Null
    /\ modelComparison' = Null
    /\ \E q \in MockQualities : imageQuality' = q
    /\ analyzing' = FALSE
    /\ UNCHANGED <<isProcessing, uploads, clicks, optimizationReport, activeTab,
                   calls, fallbacks, reports>>
    /\ UNCHANGED advFixed

\* processImage up to its first await
AnalyzeClick ==
    /\ CanStartRun
    /\ isProcessing' = TRUE
    /\ analysisResult' = Null
    /\ heatmapImage' = Null
    /\ calls' = Append(calls, [op |-> "analyze", src |-> selectedImage])
    /\ analyzing' = TRUE
    /\ clicks' = clicks + 1
    /\ UNCHANGED <<selectedImage, processedImage, readers, uploads, modelComparison,
                   optimizationReport, activeTab, imageQuality, fallbacks, reports>>
    /\ UNCHANGED advFixed

\* processImage: the response says success
AnalyzeSucceeds ==
    /\ ~Crashed
    /\ \E k \in 1..Len(calls) :
        /\ calls[k].op = "analyze"
        /\ processedImage' = calls[k].src
        /\ calls' = RemoveAt(calls, k)
    /\ \E a \in BackendAnalyses : analysisResult' = a
    /\ heatmapImage' = BackendHeatmap
    /\ UNCHANGED <<selectedImage, isProcessing, readers, uploads, clicks,
                   modelComparison, optimizationReport, activeTab, imageQuality,
                   fallbacks, analyzing, reports>>
    /\ UNCHANGED advFixed

\* processImage: a fetch rejects or the response says failure; the catch
\* block starts the 2000 ms fallback timer
AnalyzeFails ==
    /\ ~Crashed
    /\ \E k \in 1..Len(calls) :
        /\ calls[k].op = "analyze"
        /\ fallbacks' = Append(fallbacks, calls[k].src)
        /\ calls' = RemoveAt(calls, k)
    /\ UNCHANGED <<selectedImage, processedImage, isProcessing, analysisResult,
                   readers, uploads, clicks, heatmapImage, modelComparison,
                   optimizationReport, activeTab, imageQuality, analyzing, reports>>
    /\ UNCHANGED advFixed

\* the fallback timer callback of processImage
FallbackFires ==
    /\ ~Crashed
    /\ \E k \in 1..Len(fallbacks) :
        /\ processedImage' = fallbacks[k]
        /\ fallbacks' = RemoveAt(fallbacks, k)
    /\ \E a \in MockAnalyses : analysisResult' = a
    /\ heatmapImage' = MockHeatmap
    /\ isProcessing' = FALSE
    /\ UNCHANGED <<selectedImage, readers, uploads, clicks, modelComparison,
                   optimizationReport, activeTab, imageQuality, calls, analyzing,
                   reports>>
    /\ UNCHANGED advFixed

\* compareModels up to its first await
CompareClick ==
    /\ CanStartRun
    /\ isProcessing' = TRUE
    /\ modelComparison' = Null
    /\ calls' = Append(calls, [op |-> "compare", src |-> selectedImage])
    /\ clicks' = clicks + 1
    /\ UNCHANGED <<selectedImage, processedImage, analysisResult, readers, uploads,
                   heatmapImage, optimizationReport, activeTab, imageQuality,
                   fallbacks, analyzing, reports>>
    /\ UNCHANGED advFixed

\* compareModels: the response says success
CompareSucceeds ==
    /\ ~Crashed
    /\ \E k \in 1..Len(calls) :
        /\ calls[k].op = "compare"
        /\ calls' = RemoveAt(calls, k)
    /\ modelComparison' = BackendComparison
    /\ activeTab' = "comparison"
    /\ UNCHANGED <<selectedImage, processedImage, isProcessing, analysisResult,
                   readers, uploads, clicks, heatmapImage, optimizationReport,
                   imageQuality, fallbacks, analyzing, reports>>
    /\ UNCHANGED advFixed

\* compareModels: a fetch rejects or the response says failure (catch block)
CompareFails ==
    /\ ~Crashed
    /\ \E k \in 1..Len(calls) :
        /\ calls[k].op = "compare"
        /\ calls' = RemoveAt(calls, k)
    /\ modelComparison' = MockComparison
    /\ activeTab' = "comparison"
    /\ isProcessing' = FALSE
    /\ UNCHANGED <<selectedImage, processedImage, analysisResult,
                   readers, uploads, clicks, heatmapImage, optimizationReport,
                   imageQuality, fallbacks, analyzing, reports>>
    /\ UNCHANGED advFixed

\* generateOptimizationReport up to its first await: the button is rendered
\* with an image selected and is never disabled
ReportClick ==
    /\ ~Crashed
    /\ selectedImage # Null
    /\ reports < MaxReports
    /\ calls' = Append(calls, [op |-> "report", src |-> Null])
    /\ reports' = reports + 1
    /\ UNCHANGED <<selectedImage, processedImage, isProcessing, analysisResult,
                   readers, uploads, clicks, heatmapImage, modelComparison,
                   optimizationReport, activeTab, imageQuality, fallbacks, analyzing>>
    /\ UNCHANGED advFixed

\* generateOptimizationReport: the response says success
ReportSucceeds ==
    /\ ~Crashed
    /\ \E k \in 1..Len(calls) :
        /\ calls[k].op = "report"
        /\ calls' = RemoveAt(calls, k)
    /\ optimizationReport' = BackendReport
    /\ activeTab' = "optimization"
    /\ UNCHANGED <<selectedImage, processedImage, isProcessing, analysisResult,
                   readers, uploads, clicks, heatmapImage, modelComparison,
                   imageQuality, fallbacks, analyzing, reports>>
    /\ UNCHANGED advFixed

\* generateOptimizationReport: the fetch rejects or the response says failure
ReportFails ==
    /\ ~Crashed
    /\ \E k \in 1..Len(calls) :
        /\ calls[k].op = "report"
        /\ calls' = RemoveAt(calls, k)
    /\ optimizationReport' = MockReport
    /\ activeTab' = "optimization"
    /\ UNCHANGED <<selectedImage, processedImage, isProcessing, analysisResult,
                   readers, uploads, clicks, heatmapImage, modelComparison,
                   imageQuality, fallbacks, analyzing, reports>>
    /\ UNCHANGED advFixed

\* a tab button: each is rendered only while its result is non-null
SetActiveTab ==
    /\ ~Crashed
    /\ \E t \in {"analysis", "comparison", "optimization"} :
        /\ t = "analysis" => analysisResult # Null
        /\ t = "comparison" => modelComparison # Null
        /\ t = "optimization" => optimizationReport # Null
        /\ t # activeTab
        /\ activeTab' = t
    /\ UNCHANGED <<selectedImage, processedImage, isProcessing, analysisResult,
                   readers, uploads, clicks, heatmapImage, modelComparison,
                   optimizationReport, imageQuality, calls, fallbacks, analyzing,
                   reports>>
    /\ UNCHANGED advFixed

\* resetProcessor with setOptimizationReport(null) left out
AdvResetClickKeepsReport ==
    /\ ~Crashed
    /\ selectedImage # Null
    /\ selectedImage' = Null
    /\ processedImage' = Null
    /\ analysisResult' = Null
    /\ heatmapImage' = Null
    /\ modelComparison' = Null
    /\ imageQuality' = Null
    /\ analyzing' = FALSE
    /\ UNCHANGED <<isProcessing, readers, uploads, clicks, activeTab, calls,
                   fallbacks, reports, optimizationReport>>
    /\ UNCHANGED advFixed

\* resetProcessor: the Reset button is rendered only with an image selected
AdvResetClick ==
    /\ ~Crashed
    /\ selectedImage # Null
    /\ selectedImage' = Null
    /\ processedImage' = Null
    /\ analysisResult' = Null
    /\ heatmapImage' = Null
    /\ modelComparison' = Null
    /\ optimizationReport' = Null
    /\ imageQuality' = Null
    /\ analyzing' = FALSE
    /\ UNCHANGED <<isProcessing, readers, uploads, clicks, activeTab, calls,
                   fallbacks, reports>>
    /\ UNCHANGED advFixed

NextAdv ==
    \/ AdvChooseFile
    \/ AdvReaderOnload
    \/ AnalyzeClick
    \/ AnalyzeSucceeds
    \/ AnalyzeFails
    \/ FallbackFires
    \/ CompareClick
    \/ CompareSucceeds
    \/ CompareFails
    \/ ReportClick
    \/ ReportSucceeds
    \/ ReportFails
    \/ SetActiveTab
    \/ AdvResetClick

SpecAdv == InitAdv /\ [][NextAdv]_vars

----------------------------------------------------------------------------
\* The ModelComparison component. Ratios and seconds are carried in
\* hundredths (0.89 is 89, 0.45 s is 45), sizes in MB.

models ==
    << [name |-> "VGG16", accuracy |-> 89, precision |-> 87, recall |-> 91,
        f1_score |-> 89, inference_time |-> 45, model_size |-> 528],
       [name |-> "ResNet50", accuracy |-> 92, precision |-> 90, recall |-> 94,
        f1_score |-> 92, inference_time |-> 38, model_size |-> 98],
       [name |-> "MobileNetV2", accuracy |-> 85, precision |-> 83, recall |-> 87,
        f1_score |-> 85, inference_time |-> 15, model_size |-> 14],
       [name |-> "EfficientNet", accuracy |-> 94, precision |-> 93, recall |-> 95,
        f1_score |-> 94, inference_time |-> 25, model_size |-> 29] >>

\* the keys of `metrics`: the options of both selects
metrics ==
    {"accuracy", "precision", "recall", "f1_score", "inference_time", "model_size"}

\* the metrics where the smaller value is the better one
LowerIsBetter(key) == key \in {"inference_time", "model_size"}

\* the sort comparator with every metric sorted descending
CompareFnDescending(a, b, key) == b[key] - a[key]

\* the comparator handed to sort: negative when a comes before b
CompareFn(a, b, key) ==
    IF LowerIsBetter(key) THEN a[key] - b[key] ELSE b[key] - a[key]

\* one step of a stable sort: x goes behind the elements that do not come after it
InsertSorted(s, x, key) ==
    LET n == Cardinality({k \in 1..Len(s) : CompareFn(s[k], x, key) <= 0})
    IN  SubSeq(s, 1, n) \o <<x>> \o SubSeq(s, n + 1, Len(s))

RECURSIVE SortPrefix(_, _, _)
\* Array.prototype.sort (stable) on the first n elements of ms
SortPrefix(ms, n, key) ==
    IF n = 0 THEN <<>> ELSE InsertSorted(SortPrefix(ms, n - 1, key), ms[n], key)

\* [...models].sort(...): a sorted copy, by the sortBy of the current render
sortedModels == SortPrefix(models, Len(models), sortBy)

\* the callback of getBestModel's reduce with `>` on every metric
BetterOfAlwaysGreater(best, current, metric) ==
    IF current[metric] > best[metric] THEN current ELSE best

\* the callback of getBestModel's reduce
BetterOf(best, current, metric) ==
    IF LowerIsBetter(metric)
    THEN IF current[metric] < best[metric] THEN current ELSE best
    ELSE IF current[metric] > best[metric] THEN current ELSE best

RECURSIVE ReduceBest(_, _, _)
\* s.reduce(callback) without initial value, over the first n elements (n >= 1)
ReduceBest(s, n, metric) ==
    IF n = 1 THEN s[1] ELSE BetterOf(ReduceBest(s, n - 1, metric), s[n], metric)

getBestModel(metric) == ReduceBest(sortedModels, Len(sortedModels), metric)

\* the card of sortedModels[k] carries the Best badge
isBest(k) == getBestModel(selectedMetric).name = sortedModels[k].name

\* what the comparison page never touches
cmpFixed == <<input, data, i, lpc, pass, out1,
              selectedImage, processedImage, isProcessing, analysisResult,
              readers, loads, timers, uncaught, lastRun, uploads, clicks,
              heatmapImage, modelComparison, optimizationReport, activeTab,
              imageQuality, calls, fallbacks, analyzing, reports, currentPage>>

\* the "Sort by" select
SetSortBy ==
    /\ \E key \in metrics \ {sortBy} : sortBy' = key
    /\ UNCHANGED selectedMetric
    /\ UNCHANGED cmpFixed

\* the "Highlight" select
SetSelectedMetric ==
    /\ \E key \in metrics \ {selectedMetric} : selectedMetric' = key
    /\ UNCHANGED sortBy
    /\ UNCHANGED cmpFixed

NextCmp ==
    \/ SetSortBy
    \/ SetSelectedMetric

----------------------------------------------------------------------------
\* The App shell (SpecApp). App renders the navigation bar and the one page
\* whose name currentPage holds; a page that stops being rendered is
\* unmounted, so its hooks are gone and its pending callbacks no longer
\* reach any state. A page that is rendered again starts from its initial
\* hooks. The navigation bar is part of the same React tree as the pages:
\* it is gone with them when a render throws.

Pages == {"home", "xray", "advanced", "methodology", "comparison"}

\* the quick-access cards of the home page
HomeCards == {"xray", "advanced", "methodology", "comparison"}

\* the pages whose content the conditional rendering of App shows
RenderedPages == {p \in Pages : currentPage = p}

InitApp ==
    /\ LoopIdle
    /\ CompIdle
    /\ AdvIdle
    /\ CmpIdle
    /\ currentPage = "home"

\* the page that was shown is unmounted and the next one mounts with its
\* initial hooks (CompIdle, AdvIdle and CmpIdle hold again)
MountFresh ==
    /\ selectedImage' = Null
    /\ processedImage' = Null
    /\ isProcessing' = FALSE
    /\ analysisResult' = Null
    /\ readers' = <<>>
    /\ loads' = <<>>
    /\ timers' = 0
    /\ uncaught' = "none"
    /\ lastRun' = Null
    /\ uploads' = 0
    /\ clicks' = 0
    /\ heatmapImage' = Null
    /\ modelComparison' = Null
    /\ optimizationReport' = Null
    /\ activeTab' = "analysis"
    /\ imageQuality' = Null
    /\ calls' = <<>>
    /\ fallbacks' = <<>>
    /\ analyzing' = FALSE
    /\ reports' = 0
    /\ selectedMetric' = "accuracy"
    /\ sortBy' = "accuracy"

\* setCurrentPage(p) and the render that follows
SetCurrentPage(p) ==
    /\ currentPage' = p
    /\ UNCHANGED loopVars
    /\ IF p = currentPage
       THEN UNCHANGED <<compVars, advVars, cmpVars>>
       ELSE MountFresh

\* the navigation bar with the targets of two neighbouring buttons swapped
NavButtonSwapped(p) ==
    /\ ~Crashed
    /\ SetCurrentPage(IF p = "xray" THEN "advanced"
                      ELSE IF p = "advanced" THEN "xray" ELSE p)

\* the button of the navigation bar that is labelled with page p
NavButton(p) ==
    /\ ~Crashed
    /\ SetCurrentPage(p)

NavClick == \E p \in Pages : NavButton(p)

\* a card of the home page
HomeCardClick ==
    /\ currentPage = "home"
    /\ \E p \in HomeCards : SetCurrentPage(p)

NextApp ==
    \/ NavClick
    \/ HomeCardClick
    \/ (currentPage = "xray" /\ Next)
    \/ (currentPage = "advanced" /\ NextAdv)
    \/ (currentPage = "comparison" /\ NextCmp)

SpecApp == InitApp /\ [][NextApp]_vars

----------------------------------------------------------------------------
\* Properties of the App shell and its pages (checked under SpecApp).

\* a step of resetProcessor: the selected image goes away while the page stays
ResetStep ==
    /\ selectedImage # Null
    /\ selectedImage' = Null
    /\ currentPage' = currentPage

\* a step in which an upload finishes loading: its reader.onload has run
UploadLoadedStep ==
    /\ Len(readers') < Len(readers)
    /\ currentPage' = currentPage

\* C12: right after resetProcessor, selectedImage, processedImage and
\* analysisResult are null, in the advanced processor also heatmapImage,
\* modelComparison, optimizationReport and imageQuality; right after an upload
\* finishes loading, selectedImage is the image that was read and
\* processedImage and analysisResult are null.
C12_ResetAndUploadDiscard ==
    [][/\ ResetStep =>
            /\ processedImage' = Null
            /\ analysisResult' = Null
            /\ currentPage = "advanced" =>
                    /\ heatmapImage' = Null
                    /\ modelComparison' = Null
                    /\ optimizationReport' = Null
                    /\ imageQuality' = Null
       /\ UploadLoadedStep =>
            /\ \E k \in 1..Len(readers) :
                    /\ selectedImage' = readers[k]
                    /\ readers' = RemoveAt(readers, k)
            /\ processedImage' = Null
            /\ analysisResult' = Null]_vars

\* a stored optimization report was on show and reset has discarded it
C12_Witness ==
    /\ currentPage = "advanced"
    /\ reports = 1
    /\ calls = <<>>
    /\ readers = <<>>
    /\ activeTab = "optimization"
    /\ selectedImage = Null
    /\ optimizationReport = Null

\* the value of a model under a metric is at least as good as another's
AsGoodAs(a, b, key) ==
    IF LowerIsBetter(key) THEN a[key] <= b[key] ELSE a[key] >= b[key]

\* C18: on the comparison page, for every sortBy, sortedModels is a
\* permutation of the four models,
\* non-increasing for accuracy, precision, recall and f1_score and
\* non-decreasing for inference_time and model_size; models keeps its order.
C18_SortedBestFirst ==
    currentPage = "comparison" =>
        /\ Len(sortedModels) = 4
        /\ {sortedModels[k] : k \in 1..4} = {models[k] : k \in 1..4}
        /\ \A k \in 1..3 :
            IF sortBy \in {"inference_time", "model_size"}
            THEN sortedModels[k][sortBy] <= sortedModels[k + 1][sortBy]
            ELSE sortedModels[k][sortBy] >= sortedModels[k + 1][sortBy]
        /\ [k \in 1..4 |-> models[k].name] =
                <<"VGG16", "ResNet50", "MobileNetV2", "EfficientNet">>

\* sorted by size: the smallest model first, the order of models reversed in part
C18_Witness ==
    /\ currentPage = "comparison"
    /\ sortBy = "model_size"
    /\ [k \in 1..4 |-> sortedModels[k].name] =
            <<"MobileNetV2", "EfficientNet", "ResNet50", "VGG16">>

\* C19: on the comparison page, for every selectedMetric and sortBy exactly
\* one card is marked Best,
\* the one whose model is at least as good under selectedMetric as every
\* other and strictly better than each other model, whatever the sort order;
\* the summary names EfficientNet (accuracy) and MobileNetV2 (inference time,
\* model size).
C19_OneBestCard ==
    currentPage = "comparison" =>
        /\ Cardinality({k \in 1..4 : isBest(k)}) = 1
        /\ \A k \in 1..4 :
            isBest(k) <=>
                \A j \in 1..4 :
                    /\ AsGoodAs(sortedModels[k], sortedModels[j], selectedMetric)
                    /\ j # k => ~AsGoodAs(sortedModels[j], sortedModels[k], selectedMetric)
        /\ getBestModel("accuracy").name = "EfficientNet"
        /\ getBestModel("inference_time").name = "MobileNetV2"
        /\ getBestModel("model_size").name = "MobileNetV2"

\* highlighting the fastest model while sorted by accuracy: the badge is on the last card
C19_Witness ==
    /\ currentPage = "comparison"
    /\ selectedMetric = "inference_time"
    /\ sortBy = "accuracy"
    /\ isBest(4)
    /\ sortedModels[4].name = "MobileNetV2"

----------------------------------------------------------------------------
\* Properties of the AdvancedXRayProcessor (checked under SpecAdv).

\* a processImage or compareModels run still has a callback to come
RunPending ==
    \/ \E k \in 1..Len(calls) : calls[k].op \in {"analyze", "compare"}
    \/ Len(fallbacks) > 0

\* a processImage run still has a callback to come
AnalyzePending ==
    \/ \E k \in 1..Len(calls) : calls[k].op = "analyze"
    \/ Len(fallbacks) > 0

AllResults ==
    /\ analysisResult # Null
    /\ heatmapImage # Null
    /\ processedImage # Null

\* C14 (as claimed): every Analyze or Compare Models run sets isProcessing
\* back to false: while the component is up and isProcessing is true, a
\* callback of such a run is still pending.
C14_ProcessingEnds ==
    (isProcessing /\ ~Crashed) => RunPending

\* C15 (as claimed): a run of Analyze with no reset or upload since reaches
\* analysisResult, heatmapImage and processedImage all non-null: until then a
\* callback of the run is pending and the component is up to receive it.
C15_AnalyzeReachesResults ==
    analyzing => (AllResults \/ (AnalyzePending /\ ~Crashed))

\* a compareModels run still has its callback to come
ComparePending ==
    \E k \in 1..Len(calls) : calls[k].op = "compare"

\* a step in which a compareModels run ends (its last await settles)
CompareRunEnds ==
    \E k \in 1..Len(calls) :
        /\ calls[k].op = "compare"
        /\ calls' = RemoveAt(calls, k)

\* the code of compareModels taken alone: each step that ends a run leaves
\* modelComparison non-null and activeTab = 'comparison'
CompareEndLeavesComparison ==
    [][CompareRunEnds =>
            /\ modelComparison' \in {BackendComparison, MockComparison}
            /\ activeTab' = "comparison"]_vars

\* C16 (as claimed): every Compare Models run that was started ends with
\* modelComparison non-null and activeTab = 'comparison': while the run is
\* waiting for the backend, the component is up to receive its outcome.
C16_CompareRunReachesEnd ==
    ComparePending => ~Crashed

\* C17 (as claimed): a stored optimization report holds every field the
\* optimization tab reads, so rendering it never throws.
C17_ReportHasFieldsRead ==
    optimizationReport # Null =>
        /\ "model_info" \in DOMAIN optimizationReport
        /\ {"size_mb", "accuracy", "inference_time_ms"} \subseteq
                DOMAIN optimizationReport.model_info
        /\ "optimization_comparison" \in DOMAIN optimizationReport
        /\ "best_strategy" \in DOMAIN optimizationReport.optimization_comparison
        /\ "target_size_mb" \in DOMAIN optimizationReport
        /\ "summary" \in DOMAIN optimizationReport
        /\ "achievable_size_mb" \in DOMAIN optimizationReport.summary
        /\ ~Crashed

\* the result that the tab named t shows
TabResult(t) ==
    IF t = "analysis" THEN analysisResult
    ELSE IF t = "comparison" THEN modelComparison
    ELSE optimizationReport

\* C23 (as claimed): whenever one of analysisResult, modelComparison and
\* optimizationReport is non-null (the results panel and its tab buttons are
\* rendered), activeTab names a result that is non-null, so a tab's content
\* is shown.
C23_ActiveTabHasResult ==
    (analysisResult # Null \/ modelComparison # Null \/ optimizationReport # Null)
        => TabResult(activeTab) # Null

----------------------------------------------------------------------------
\* Properties of the component (checked under Spec).

\* C4: whenever img.onload has produced a transformed bitmap, it has the
\* width, the height and the number of bytes (4 per pixel) of the decoded
\* input bitmap.
C4_SameShape ==
    (lastRun # Null /\ lastRun.promise = "fulfilled") =>
        /\ lastRun.out.width = lastRun.src.width
        /\ lastRun.out.height = lastRun.src.height
        /\ Len(lastRun.out.data) = Len(lastRun.src.data)
        /\ Len(lastRun.out.data) = 4 * lastRun.src.width * lastRun.src.height
        /\ processedImage # Null =>
                Len(processedImage.data) = 4 * processedImage.width * processedImage.height

\* a 2 x 1 image transformed into a 2 x 1 image of 8 bytes
C4_Witness ==
    /\ lastRun # Null
    /\ lastRun.promise = "fulfilled"
    /\ lastRun.src.width = 2
    /\ lastRun.src.height = 1
    /\ lastRun.out.width = 2
    /\ lastRun.out.height = 1
    /\ Len(lastRun.out.data) = 8
    /\ processedImage = lastRun.out

\* C5 (as claimed): a run of the transform on an empty buffer ends in an
\* InvalidInput error delivered through the promise, and returns no image.
C5_EmptyBufferFailsInvalidInput ==
    (lastRun # Null /\ lastRun.src.kind = "image" /\ Len(lastRun.src.data) = 0) =>
        /\ lastRun.promise = "rejected"
        /\ lastRun.error = "InvalidInput"
        /\ lastRun.out = Null

\* a step of a processImage run: the click, the image load callback, or the timer
ProcessImageStep ==
    \/ clicks' # clicks
    \/ Len(loads') < Len(loads)
    \/ timers' # timers

\* C11: no step of a processImage run changes selectedImage; when such a step
\* stores a processed image, it is the separate canvas output of the run,
\* whose source is the image the run was started on.
C11_SourceNotMutated ==
    [][ProcessImageStep =>
            /\ selectedImage' = selectedImage
            /\ processedImage' # processedImage =>
                    /\ processedImage' = lastRun'.out
                    /\ \E k \in 1..Len(loads) : lastRun'.src = loads[k]]_vars

\* a finished run: the original is still selected, the processed image differs
C11_Witness ==
    /\ selectedImage # Null
    /\ processedImage # Null
    /\ lastRun # Null
    /\ lastRun.src = selectedImage
    /\ processedImage = lastRun.out
    /\ processedImage.data # selectedImage.data
    /\ ~isProcessing

\* C13 (as claimed): every run of processImage finishes: whenever isProcessing
\* is true, a callback that will set it back to false (the image load, then
\* the timer) is still pending.
C13_ProcessingEnds ==
    isProcessing => (Len(loads) > 0 \/ timers > 0)

\* C21 (as claimed): no stale result: whenever processedImage is non-null,
\* selectedImage is non-null and processedImage is the transform of the
\* selectedImage of that state.
C21_NoStaleResult ==
    processedImage # Null =>
        /\ selectedImage # Null
        /\ selectedImage.kind = "image"
        /\ ~GetImageDataThrows(CanvasWidth(selectedImage), CanvasHeight(selectedImage))
        /\ processedImage = XRayImage(selectedImage)

\* C22 (as claimed): after resetProcessor or a completed upload, in either
\* processor, analysisResult stays null until processImage is invoked again:
\* a non-null analysisResult means processImage was invoked since the last
\* reset or upload.
C22_NoResultAfterDiscard ==
    analysisResult # Null => analyzing

----------------------------------------------------------------------------
\* Properties of the pixel loop (checked under SpecLoop).

\* the colour-channel positions of a buffer (offsets 0, 1, 2 of each pixel)
ColourIdx(d) == {k \in 1..Len(d) : (k - 1) % 4 # 3}

\* the alpha positions of a buffer (offset 3 of each pixel)
AlphaIdx(d) == {k \in 1..Len(d) : (k - 1) % 4 = 3}

\* the single formula (255 - v - 128) * 1.5 + 128, in halves
RefHalves(v) == 3 * (255 - v - 128) + 256

RefClamp(h) == IF h < 0 THEN 0 ELSE IF h > 510 THEN 510 ELSE h

\* nearest integer, ties to even: 2m + 0.5 -> 2m, 2m + 1.5 -> 2m + 2
RefRound(h) ==
    IF h % 4 = 1 THEN (h - 1) \div 2
    ELSE IF h % 4 = 3 THEN (h + 1) \div 2
    ELSE h \div 2

Reference(v) == RefRound(RefClamp(RefHalves(v)))

FirstRunDone == lpc = "done" /\ pass = 1

SecondRunDone == lpc = "done" /\ pass = 2

\* C1: when the loop has run once, every colour byte equals the single-formula
\* reference clamp(0,255,(255-v-128)*1.5+128), rounded to nearest with ties to
\* even, of the byte it started from; the buffers sweep every v in 0..255.
C1_LoopMatchesFormula ==
    FirstRunDone =>
        \A k \in ColourIdx(data) : data[k] = Reference(input[k])

\* a tie: v = 126 gives 129.5, stored as 130
C1_Witness ==
    /\ FirstRunDone
    /\ Len(input) = 8
    /\ input[1] = 126
    /\ data[1] = 130

\* C2: in every state of the loop, every alpha byte (offset 3 of each pixel)
\* holds the value the input buffer had there: the loop never writes it.
C2_AlphaPreserved ==
    /\ Len(data) = Len(input)
    /\ \A k \in AlphaIdx(data) : data[k] = input[k]

C2_Witness ==
    /\ lpc = "done"
    /\ Len(input) = 8
    /\ input[4] = 77
    /\ data[4] = 77
    /\ input[8] = 178
    /\ data[8] = 178
    /\ data[1] # input[1]

\* C3: after every store of the loop (the intermediate ones too) every byte of
\* the buffer is an integer in 0..255.
C3_ChannelsInRange ==
    \A k \in 1..Len(data) : data[k] \in Byte

\* v = 0 is inverted to 255; the contrast stretch of 255 is 318.5 before clamping
C3_Witness ==
    /\ lpc = "test"
    /\ pass = 1
    /\ i = 4
    /\ input[1] = 0
    /\ data[1] = 255
    /\ RefHalves(input[1]) > 510

C7_TwiceNeverOriginal ==
    (SecondRunDone /\ Len(input) > 0) => data # input

\* C7 (amended): running the loop twice gives back the original buffer exactly
\* when every colour byte of it is 0 or 255; every other non-empty buffer
\* comes back different.
C7_TwiceOriginalOnlyIfSaturated ==
    SecondRunDone =>
        ((data = input) <=> (\A k \in ColourIdx(input) : input[k] \in {0, 255}))

C7_Witness ==
    /\ SecondRunDone
    /\ Len(input) = 8
    /\ input[1] = 128
    /\ out1[1] = 126
    /\ data[1] = 130
    /\ data # input

\* C8: the loop is not idempotent: no colour byte is a fixed point of one run
\* (swept over 0..255), and for every non-empty buffer the second run's
\* result differs from the first run's.
C8_NotIdempotent ==
    /\ FirstRunDone => \A k \in ColourIdx(data) : data[k] # input[k]
    /\ (SecondRunDone /\ Len(input) > 0) =>
            /\ data # out1
            /\ \A k \in ColourIdx(data) : data[k] # out1[k]

C8_Witness ==
    /\ SecondRunDone
    /\ Len(input) = 4
    /\ input[1] = 127
    /\ out1[1] = 128
    /\ data[1] = 126

\* C9 (as claimed): a colour byte of 128 becomes 127.
C9_Gray128Gives127 ==
    FirstRunDone =>
        \A k \in ColourIdx(data) : input[k] = 128 => data[k] = 127

\* C9 (amended): a colour byte of 128 becomes 126: the formula's value at 128
\* is 126.5, and the clamped array rounds the tie to the even neighbour.
C9_Gray128Gives126 ==
    FirstRunDone =>
        \A k \in ColourIdx(data) : input[k] = 128 => data[k] = 126

C9_Witness ==
    /\ FirstRunDone
    /\ Len(input) = 4
    /\ input[2] = 128
    /\ data[2] = 126
    /\ RefHalves(128) = 253

\* C10: the loop saturates at the boundaries: a colour byte of 0 becomes 255
\* and a colour byte of 255 becomes 0.
C10_BoundariesSaturate ==
    FirstRunDone =>
        \A k \in ColourIdx(data) :
            /\ input[k] = 0 => data[k] = 255
            /\ input[k] = 255 => data[k] = 0

\* 318.5 is clamped to 255 and -64 to 0
C10_Witness ==
    /\ FirstRunDone
    /\ Len(input) = 4
    /\ input[1] = 0
    /\ data[1] = 255
    /\ input[3] = 255
    /\ data[3] = 0
    /\ RefHalves(0) = 637
    /\ RefHalves(255) = -128

====
